---- MODULE Spec2Model ----
(***************************************************************************)
(* Verification model of Upsonic/sweep.                                    *)
(*                                                                         *)
(*   sweepai/utils/chat_logger.py  ChatLogger: the per-user ticket         *)
(*                                 counters and the use_faster_model       *)
(*                                 decision (specification Spec)           *)
(*   sweepai/api.py                webhook: the (event, action) dispatcher *)
(*                                 (specification SpecWebhook)             *)
(***************************************************************************)
EXTENDS Integers, Sequences, FiniteSets, TLC

VARIABLES clock, store, seed, loggers, tickets, call

qvars == <<clock, store, seed, loggers, tickets, call>>

(***************************************************************************)
(* Bounds of the model.                                                    *)
(***************************************************************************)
\* ChatLogger instances alive at the same time (concurrent callers).
NumLoggers == 2
\* add_successful_ticket calls that return normally in one behaviour.
MaxAdds == 2
\* Days the wall clock advances in one behaviour.
MaxTicks == 1

LoggerIds == 1..NumLoggers

(***************************************************************************)
(* Python values.                                                          *)
(***************************************************************************)
\* A call's outcome: a returned value or a propagated exception. geo tells
\* whether the call consulted the geolocation resolver. EndOfBlock is a
\* block of statements that ran to its end without returning.
Return(v) == [kind |-> "return", value |-> v, geo |-> FALSE]
Raise(e) == [kind |-> "raise", value |-> e, geo |-> FALSE]
WithGeo(r) == [r EXCEPT !.geo = TRUE]
EndOfBlock == [kind |-> "pass", value |-> FALSE, geo |-> FALSE]
Raised(r) == r.kind = "raise"
Returned(r) == r.kind = "return"

\* dict.get(key, default)
Get(d, key, default) == IF key \in DOMAIN d THEN d[key] ELSE default

(***************************************************************************)
(* datetime.utcnow().strftime(...)                                         *)
(***************************************************************************)
Digit(n) ==
    CASE n = 0 -> "0" [] n = 1 -> "1" [] n = 2 -> "2" [] n = 3 -> "3"
      [] n = 4 -> "4" [] n = 5 -> "5" [] n = 6 -> "6" [] n = 7 -> "7"
      [] n = 8 -> "8" [] n = 9 -> "9"

\* %m and %d: two digits, zero padded.
Pad2(n) == Digit((n \div 10) % 10) \o Digit(n % 10)

\* %Y: four digits.
Pad4(n) == Pad2(n \div 100) \o Pad2(n % 100)

\* strftime("%m/%Y/%d")
strftime_date(t) == Pad2(t.month) \o "/" \o Pad4(t.year) \o "/" \o Pad2(t.day)

\* strftime("%m/%Y")
strftime_month(t) == Pad2(t.month) \o "/" \o Pad4(t.year)

\* f"{self.current_month}_gpt3"
gpt3_key(current_month) == current_month \o "_gpt3"

\* The Gregorian calendar the wall clock follows.
IsLeap(y) == (y % 4 = 0 /\ y % 100 # 0) \/ y % 400 = 0

DaysIn(y, m) ==
    IF m = 2 THEN (IF IsLeap(y) THEN 29 ELSE 28)
    ELSE IF m \in {4, 6, 9, 11} THEN 30 ELSE 31

NextDay(t) ==
    IF t.day < DaysIn(t.year, t.month) THEN [t EXCEPT !.day = @ + 1]
    ELSE IF t.month < 12 THEN [t EXCEPT !.month = @ + 1, !.day = 1]
    ELSE [year |-> t.year + 1, month |-> 1, day |-> 1]

\* The UTC date at which a behaviour starts: the last day of a month.
StartTime == [year |-> 2023, month |-> 1, day |-> 31]

(***************************************************************************)
(* The "tickets" collection of the Counter Store (pymongo). A collection   *)
(* is the sequence of its documents; a document maps field names to        *)
(* values. Every store operation is atomic on the server.                  *)
(***************************************************************************)
Users == {"alice", "bob"}

Matches(doc, filter) ==
    \A k \in DOMAIN filter : k \in DOMAIN doc /\ doc[k] = filter[k]

MatchIdx(coll, filter) == {i \in 1..Len(coll) : Matches(coll[i], filter)}

FirstIdx(S) == CHOOSE i \in S : \A j \in S : i <= j

\* collection.find_one(filter): the first matching document, as a sequence
\* of at most one document (<<>> is Python's None).
find_one(coll, filter) ==
    IF MatchIdx(coll, filter) = {} THEN <<>>
    ELSE <<coll[FirstIdx(MatchIdx(coll, filter))]>>

\* {"$inc": incs} applied to a document: an absent field counts from 0.
Inc(doc, incs) ==
    [k \in DOMAIN doc \cup DOMAIN incs |->
        IF k \in DOMAIN incs THEN Get(doc, k, 0) + incs[k] ELSE doc[k]]

\* Mutant: insert_one where the code upserts.
update_one_insert(coll, filter, incs) == Append(coll, Inc(filter, incs))

\* collection.update_one(filter, {"$inc": incs}, upsert=True)
update_one(coll, filter, incs) ==
    IF MatchIdx(coll, filter) = {} THEN Append(coll, Inc(filter, incs))
    ELSE [coll EXCEPT ![FirstIdx(MatchIdx(coll, filter))] = Inc(@, incs)]

\* {"$project": {field: 1, "_id": 0}}
Project(doc, field) == [k \in DOMAIN doc \cap {field} |-> doc[k]]

\* collection.aggregate([{"$match": filter}, {"$project": {field: 1, "_id": 0}}])
aggregate(coll, filter, field) ==
    LET hits == SelectSeq(coll, LAMBDA doc : Matches(doc, filter))
    IN [i \in 1..Len(hits) |-> Project(hits[i], field)]

(***************************************************************************)
(* ChatLogger. self is the instance: data, ticket_collection (TRUE when    *)
(* set, FALSE when None), current_date, current_month. coll is the content *)
(* of the collection the instance points to.                               *)
(***************************************************************************)
\* ChatLogger.__init__ with initialize_mongodb: conn is what connecting
\* does. "no_key": MONGODB_URI is None; "client_error": MongoClient raises;
\* "index_error": create_indexes raises after both collections were set;
\* "ok": everything succeeds.
ConnOutcomes == {"no_key", "client_error", "index_error", "ok"}

ChatLogger(data, now, conn) ==
    [data |-> data,
     ticket_collection |-> conn \in {"index_error", "ok"},
     current_date |-> strftime_date(now),
     current_month |-> strftime_month(now)]

\* Mutant: the assignee is not looked at.
TicketUser_username(self) == self.data["username"]

\* The username add_successful_ticket counts the ticket for.
TicketUser(self) ==
    IF "assignee" \in DOMAIN self.data THEN self.data["assignee"]
    ELSE self.data["username"]

\* Mutant: a cheap-tier ticket also counts for the month and the day.
TicketIncs_all(self, gpt3) ==
    [k \in {self.current_month, self.current_date}
            \cup {key \in {gpt3_key(self.current_month)} : gpt3} |-> 1]

\* The $inc document of add_successful_ticket.
TicketIncs(self, gpt3) ==
    IF gpt3 THEN [k \in {gpt3_key(self.current_month)} |-> 1]
    ELSE [k \in {self.current_month, self.current_date} |-> 1]

\* add_successful_ticket: the collection after the call. fault: the store
\* operation raises (the store is unreachable) and writes nothing.
add_successful_ticket(self, coll, gpt3) ==
    IF ~self.ticket_collection THEN coll
    ELSE update_one(coll, [username |-> TicketUser(self)], TicketIncs(self, gpt3))

\* get_ticket_count. fault: the aggregate raises.
get_ticket_count(self, coll, use_date, gpt3, fault) ==
    IF ~self.ticket_collection THEN Return(0)
    ELSE IF fault THEN Raise("StoreError")
    ELSE
      LET tracking_date ==
              IF gpt3 THEN gpt3_key(self.current_month)
              ELSE IF use_date THEN self.current_date ELSE self.current_month
          result_list ==
              aggregate(coll, [username |-> self.data["username"]], tracking_date)
      IN Return(IF Len(result_list) > 0
                THEN Get(result_list[1], tracking_date, 0) ELSE 0)

\* is_paying_user / is_trial_user. fault: find_one raises.
FlagLookup(self, coll, flag, fault) ==
    IF ~self.ticket_collection THEN Return(FALSE)
    ELSE IF fault THEN Raise("StoreError")
    ELSE
      LET result == find_one(coll, [username |-> self.data["username"]])
      IN Return(IF result # <<>> THEN Get(result[1], flag, FALSE) ELSE FALSE)

is_paying_user(self, coll, fault) == FlagLookup(self, coll, "is_paying_user", fault)

is_trial_user(self, coll, fault) == FlagLookup(self, coll, "is_trial_user", fault)

(***************************************************************************)
(* Geolocation. Text the code searches in is a sequence of characters.     *)
(***************************************************************************)
UpperCase ==
    <<"A", "B", "C", "D", "E", "F", "G", "H", "I", "J", "K", "L", "M",
      "N", "O", "P", "Q", "R", "S", "T", "U", "V", "W", "X", "Y", "Z">>

LowerCase ==
    <<"a", "b", "c", "d", "e", "f", "g", "h", "i", "j", "k", "l", "m",
      "n", "o", "p", "q", "r", "s", "t", "u", "v", "w", "x", "y", "z">>

\* str.lower()
lower(text) ==
    [i \in 1..Len(text) |->
        IF \E j \in 1..Len(UpperCase) : UpperCase[j] = text[i]
        THEN LowerCase[CHOOSE j \in 1..Len(UpperCase) : UpperCase[j] = text[i]]
        ELSE text[i]]

\* Python's "a in b" on strings.
Contains(b, a) ==
    \E i \in 1..(Len(b) - Len(a) + 1) : SubSeq(b, i, i + Len(a) - 1) = a

\* sweepai.config.server.SUPPORT_COUNTRY: the configured allow-list.
SUPPORT_COUNTRY == << <<"I", "N">>, <<"U", "S">> >>

\* What Nominatim().geocode returns as Location.raw.
RawGoa == [display_name |-> <<"G", "o", "a", ",", " ", "I", "n", "d", "i", "a">>]
RawRio == [display_name |-> <<"R", "i", "o", ",", " ", "B", "r", "a", "z", "i", "l">>]
RawNameless == [osm_type |-> <<"n", "o", "d", "e">>]

\* What one geolocation lookup does. get_user: g.get_user(username) returns
\* ("ok") or raises ("error"); location: the user's declared location is a
\* text ("set") or None ("unset"); geocode: the geocoder raises
\* GeocoderTimedOut ("timeout"), GeocoderServiceError ("service_error") or
\* another exception ("error"), finds nothing ("none": loc is None) or
\* returns a Location ("found": loc holds its raw). The code hands the
\* location to the geocoder without looking at it, so every geocoder
\* outcome goes with a set and with an unset location.
GeoOutcomes ==
    {[get_user |-> "error", location |-> "unset", geocode |-> "none", loc |-> <<>>]}
    \cup {[get_user |-> "ok", location |-> "set", geocode |-> k, loc |-> <<>>] :
            k \in {"timeout", "service_error", "error", "none"}}
    \cup {[get_user |-> "ok", location |-> "set", geocode |-> "found", loc |-> <<raw>>] :
            raw \in {RawGoa, RawRio, RawNameless}}
    \cup {[get_user |-> "ok", location |-> "unset", geocode |-> "none", loc |-> <<>>]}
    \cup {[get_user |-> "ok", location |-> "unset", geocode |-> "found", loc |-> <<raw>>] :
            raw \in {RawGoa, RawRio}}

\* is_supported_country(loc): the loop returns at the first entry found in
\* the display name; reading loc.raw of None, or lowering a missing
\* display name, raises AttributeError in the first iteration.
is_supported_country(loc) ==
    IF Len(SUPPORT_COUNTRY) = 0 THEN Return(FALSE)
    ELSE IF loc = <<>> THEN Raise("AttributeError")
    ELSE IF "display_name" \notin DOMAIN loc[1] THEN Raise("AttributeError")
    ELSE Return(\E i \in 1..Len(SUPPORT_COUNTRY) :
                    Contains(lower(loc[1]["display_name"]), lower(SUPPORT_COUNTRY[i])))

\* Mutants: > and == where the code compares with >=.
AtLeast_strict(count, n) == IF Raised(count) THEN count ELSE Return(count.value > n)

AtLeast_exact(count, n) == IF Raised(count) THEN count ELSE Return(count.value = n)

\* count >= n, where count is the outcome of a get_ticket_count call.
AtLeast(count, n) == IF Raised(count) THEN count ELSE Return(count.value >= n)

\* count > n
\* Mutant: >= where the code compares with >.
MoreThan_inclusive(count, n) ==
    IF Raised(count) THEN count ELSE Return(count.value >= n)

MoreThan(count, n) == IF Raised(count) THEN count ELSE Return(count.value > n)

\* Python's "a or b" of two conditions: b is evaluated only when a is false.
OrElse(a, b) == IF Raised(a) THEN a ELSE IF a.value THEN a ELSE b

\* The store operations of one use_faster_model call, by call site, in the
\* order of the source.
Sites ==
    <<"is_paying_user", "count_paying", "is_trial_user", "count_trial",
      "count_try_month", "count_try_date", "count_month", "count_date">>

\* The store operations that raise during one call: none, a single one (a
\* transient failure), or every one from some site on (an outage).
FaultSets ==
    {{}} \cup {{Sites[i]} : i \in 1..Len(Sites)}
         \cup {{Sites[j] : j \in i..Len(Sites)} : i \in 1..Len(Sites)}

\* Lines 171-180, the body of the try block: the value it returns, the
\* exception it raises, or EndOfBlock when it runs to its end.
TryLocation(self, coll, g, faults) ==
    IF g.get_user = "error" THEN Raise("Exception")
    ELSE IF g.geocode = "timeout" THEN Raise("GeocoderTimedOut")
    ELSE IF g.geocode = "service_error" THEN Raise("GeocoderServiceError")
    ELSE IF g.geocode = "error" THEN Raise("Exception")
    ELSE
      LET supported == is_supported_country(g.loc)
      IN IF Raised(supported) THEN supported
         ELSE IF ~supported.value
         THEN OrElse(
                AtLeast(get_ticket_count(self, coll, FALSE, FALSE,
                                         "count_try_month" \in faults), 5),
                AtLeast(get_ticket_count(self, coll, TRUE, FALSE,
                                         "count_try_date" \in faults), 1))
         ELSE EndOfBlock

\* check_location_and_ticket_count: every exception of the try block is
\* caught and logged, and control falls through to the last line.
check_location_and_ticket_count(self, coll, g, faults) ==
    LET tried == TryLocation(self, coll, g, faults)
    IN WithGeo(
         IF Returned(tried) THEN tried
         ELSE OrElse(
                AtLeast(get_ticket_count(self, coll, FALSE, FALSE,
                                         "count_month" \in faults), 5),
                MoreThan(get_ticket_count(self, coll, TRUE, FALSE,
                                          "count_date" \in faults), 3)))

\* Mutant: the trial flag is looked at before the paying flag.
use_faster_trial_first(self, coll, g, faults) ==
    LET paying == is_paying_user(self, coll, "is_paying_user" \in faults)
        trial == is_trial_user(self, coll, "is_trial_user" \in faults)
    IN IF Raised(trial) THEN trial
       ELSE IF trial.value
       THEN AtLeast(get_ticket_count(self, coll, FALSE, FALSE,
                                     "count_trial" \in faults), 15)
       ELSE IF Raised(paying) THEN paying
       ELSE IF paying.value
       THEN AtLeast(get_ticket_count(self, coll, FALSE, FALSE,
                                     "count_paying" \in faults), 500)
       ELSE check_location_and_ticket_count(self, coll, g, faults)

\* Lines 159-167 of use_faster_model: the tier of the user decides.
use_faster(self, coll, g, faults) ==
    LET paying == is_paying_user(self, coll, "is_paying_user" \in faults)
        trial == is_trial_user(self, coll, "is_trial_user" \in faults)
    IN IF Raised(paying) THEN paying
       ELSE IF paying.value
       THEN AtLeast(get_ticket_count(self, coll, FALSE, FALSE,
                                     "count_paying" \in faults), 500)
       ELSE IF Raised(trial) THEN trial
       ELSE IF trial.value
       THEN AtLeast(get_ticket_count(self, coll, FALSE, FALSE,
                                     "count_trial" \in faults), 15)
       ELSE check_location_and_ticket_count(self, coll, g, faults)

\* Mutant: the check of ticket_collection is missing.
use_faster_model_unguarded(self, coll, g, faults) == use_faster(self, coll, g, faults)

\* use_faster_model(g)
use_faster_model(self, coll, g, faults) ==
    IF ~self.ticket_collection THEN Return(TRUE)
    ELSE use_faster(self, coll, g, faults)

(***************************************************************************)
(* The state machine of the usage quota governor.                          *)
(*   clock    the UTC wall-clock date                                      *)
(*   store    the tickets collection                                       *)
(*   seed     the collection at the start of the behaviour                 *)
(*   loggers  the ChatLogger instances constructed so far                  *)
(*   tickets  tickets[l][gpt3]: the add_successful_ticket(gpt3) calls of   *)
(*            instance l that returned                                     *)
(*   call     the call of a ChatLogger method that has just ended: its     *)
(*            instance, its arguments, what geolocation did, and its       *)
(*            outcome; NoCall once the caller has taken the outcome        *)
(***************************************************************************)
RECURSIVE Later(_, _)
Later(t, n) == IF n = 0 THEN t ELSE Later(NextDay(t), n - 1)

\* A document of the collection written before the behaviour starts:
\* flags maps the tier flags the record carries, month and date are the
\* counters of the starting month and day (absent when 0).
SeedDoc(username, flags, month, date) ==
    [k \in {"username"} |-> username] @@ flags
    @@ [k \in {key \in {strftime_month(StartTime)} : month > 0} |-> month]
    @@ [k \in {key \in {strftime_date(StartTime)} : date > 0} |-> date]

NoFlags == [k \in {} |-> FALSE]
Paying == [k \in {"is_paying_user"} |-> TRUE]
Trial == [k \in {"is_paying_user", "is_trial_user"} |-> k = "is_trial_user"]
PayingTrial == [k \in {"is_paying_user", "is_trial_user"} |-> TRUE]

\* The collections a behaviour starts from: empty, or bob's record followed
\* by a record of alice one ticket below a threshold of her tier.
Seeds ==
    {<<>>}
    \cup {<<SeedDoc("bob", Paying, 500, 0), doc>> :
            doc \in {SeedDoc("alice", NoFlags, 4, 3),
                     SeedDoc("alice", PayingTrial, 499, 0)}}

\* Monthly and daily counts around every threshold of use_faster_model.
MonthCounts == {0, 1, 4, 5, 6, 14, 15, 16, 499, 500, 501}
DayCounts == {0, 1, 3, 4}

\* The collections the decision is tried on: empty, or bob's record followed
\* by a record of alice with any flags and any of the counts above (a day's
\* tickets are tickets of its month too).
DecisionSeeds ==
    {<<>>}
    \cup {<<SeedDoc("bob", Paying, 500, 0), SeedDoc("alice", c[1], c[2], c[3])>> :
            c \in {c \in {NoFlags, Paying, Trial, PayingTrial} \X MonthCounts \X DayCounts :
                      c[3] <= c[2]}}

\* The data dicts ChatLogger instances are constructed with: the first
\* instance works on a ticket of alice, assigned or not; the later ones on
\* tickets of alice too, at the same time.
LoggerData(l) ==
    IF l = 1 THEN {[username |-> "alice"], [username |-> "alice", assignee |-> "bob"]}
    ELSE {[username |-> "alice"]}

NoGeo == [get_user |-> "unused", location |-> "unset", geocode |-> "none", loc |-> <<>>]

NoCall ==
    [logger |-> 0, op |-> "none", gpt3 |-> FALSE, use_date |-> FALSE,
     g |-> NoGeo, ret |-> Return(FALSE)]

Added == [l \in LoggerIds |-> tickets[l][TRUE] + tickets[l][FALSE]]

RECURSIVE SumOver(_, _)
SumOver(f, S) ==
    IF S = {} THEN 0
    ELSE LET x == CHOOSE x \in S : TRUE IN f[x] + SumOver(f, S \ {x})

QuotaInit ==
    /\ clock = StartTime
    /\ store \in Seeds
    /\ seed = store
    /\ loggers = <<>>
    /\ tickets = [l \in LoggerIds |-> [gpt3 \in BOOLEAN |-> 0]]
    /\ call = NoCall

\* ChatLogger(data): instances are numbered in the order of construction.
Construct(l, data, conn) ==
    /\ call.op = "none"
    /\ l = Len(loggers) + 1
    /\ loggers' = Append(loggers, ChatLogger(data, clock, conn))
    /\ UNCHANGED <<clock, store, seed, tickets, call>>

\* A day of wall-clock time passes.
Tick ==
    /\ call.op = "none"
    /\ clock # Later(StartTime, MaxTicks)
    /\ clock' = NextDay(clock)
    /\ UNCHANGED <<store, seed, loggers, tickets, call>>

\* self.add_successful_ticket(gpt3) on instance l. fault: update_one raises
\* and the exception leaves the method.
AddSuccessfulTicket(l, gpt3, fault) ==
    /\ call.op = "none"
    /\ l \in DOMAIN loggers
    /\ SumOver(Added, LoggerIds) < MaxAdds
    /\ LET self == loggers[l]
           raises == self.ticket_collection /\ fault
       IN /\ store' = IF raises THEN store ELSE add_successful_ticket(self, store, gpt3)
          /\ tickets' = IF raises THEN tickets
                        ELSE [tickets EXCEPT ![l][gpt3] = @ + 1]
          /\ call' = [logger |-> l, op |-> "add_successful_ticket", gpt3 |-> gpt3,
                      use_date |-> FALSE, g |-> NoGeo,
                      ret |-> IF raises THEN Raise("StoreError") ELSE Return(FALSE)]
    /\ UNCHANGED <<clock, seed, loggers>>

\* self.get_ticket_count(use_date, gpt3) on instance l.
GetTicketCount(l, use_date, gpt3, fault) ==
    /\ call.op = "none"
    /\ l \in DOMAIN loggers
    /\ call' = [logger |-> l, op |-> "get_ticket_count", gpt3 |-> gpt3,
                use_date |-> use_date, g |-> NoGeo,
                ret |-> get_ticket_count(loggers[l], store, use_date, gpt3, fault)]
    /\ UNCHANGED <<clock, store, seed, loggers, tickets>>

\* self.is_paying_user() on instance l.
IsPayingUser(l, fault) ==
    /\ call.op = "none"
    /\ l \in DOMAIN loggers
    /\ call' = [logger |-> l, op |-> "is_paying_user", gpt3 |-> FALSE,
                use_date |-> FALSE, g |-> NoGeo,
                ret |-> is_paying_user(loggers[l], store, fault)]
    /\ UNCHANGED <<clock, store, seed, loggers, tickets>>

\* self.is_trial_user() on instance l.
IsTrialUser(l, fault) ==
    /\ call.op = "none"
    /\ l \in DOMAIN loggers
    /\ call' = [logger |-> l, op |-> "is_trial_user", gpt3 |-> FALSE,
                use_date |-> FALSE, g |-> NoGeo,
                ret |-> is_trial_user(loggers[l], store, fault)]
    /\ UNCHANGED <<clock, store, seed, loggers, tickets>>

\* self.use_faster_model(g) on instance l: g is what the geolocation lookup
\* does when the call makes it, faults the store operations that raise.
UseFasterModel(l, g, faults) ==
    /\ call.op = "none"
    /\ l \in DOMAIN loggers
    /\ call' = [logger |-> l, op |-> "use_faster_model", gpt3 |-> FALSE,
                use_date |-> FALSE, g |-> g,
                ret |-> use_faster_model(loggers[l], store, g, faults)]
    /\ UNCHANGED <<clock, store, seed, loggers, tickets>>

\* The caller takes the outcome of the call that ended.
TakeOutcome ==
    /\ call.op # "none"
    /\ call' = NoCall
    /\ UNCHANGED <<clock, store, seed, loggers, tickets>>

QuotaNext ==
    \/ \E l \in LoggerIds : \E data \in LoggerData(l), conn \in ConnOutcomes :
          Construct(l, data, conn)
    \/ Tick
    \/ \E l \in LoggerIds, gpt3 \in BOOLEAN, fault \in BOOLEAN :
          AddSuccessfulTicket(l, gpt3, fault)
    \/ \E l \in LoggerIds, use_date \in BOOLEAN, gpt3 \in BOOLEAN, fault \in BOOLEAN :
          GetTicketCount(l, use_date, gpt3, fault)
    \/ \E l \in LoggerIds, fault \in BOOLEAN : IsPayingUser(l, fault)
    \/ \E l \in LoggerIds, fault \in BOOLEAN : IsTrialUser(l, fault)
    \/ \E l \in LoggerIds, g \in GeoOutcomes, faults \in FaultSets :
          UseFasterModel(l, g, faults)
    \/ TakeOutcome

(***************************************************************************)
(* sweepai/api.py: the webhook.                                            *)
(*                                                                         *)
(* Text the code searches in (titles, label names, branch names) is a      *)
(* sequence of characters. An optional value is <<>> (None) or <<v>>.      *)
(***************************************************************************)
VARIABLES repo_labels, issue_labels, handled

wvars == <<repo_labels, issue_labels, handled>>

\* sweepai.utils.constants: the marker label and the login of the bot.
LABEL_NAME == <<"s", "w", "e", "e", "p">>
LABEL_COLOR == "9400D3"
LABEL_DESCRIPTION == "Sweep your software chores"
SWEEP_LOGIN == "sweep-ai[bot]"

\* x or ""
OrEmpty(opt) == IF opt = <<>> THEN <<"">> ELSE opt

\* str.startswith
StartsWith(text, prefix) ==
    Len(text) >= Len(prefix) /\ SubSeq(text, 1, Len(prefix)) = prefix

\* sweepai.events: the request models. A body validates against a model
\* when it carries the model's required fields.
Required(model) ==
    CASE model = "IssueRequest" -> {"action", "issue", "repository", "installation"}
      [] model = "IssueCommentRequest" ->
            {"action", "issue", "comment", "repository", "installation"}
      [] model = "CommentCreatedRequest" ->
            {"action", "comment", "pull_request", "repository", "installation"}
      [] model = "CheckRunCompleted" ->
            {"action", "check_run", "repository", "installation", "sender"}
      [] model = "ReposAddedRequest" -> {"action", "repositories_added", "installation"}
      [] model = "InstallationCreatedRequest" -> {"action", "repositories", "installation"}
      [] model = "PRRequest" -> {"action", "pull_request", "repository"}

Validates(model, request_dict) == Required(model) \subseteq DOMAIN request_dict

\* What one handling of a request did, in order: the labels it created and
\* attached, the tasks it spawned or called, the analytics events it
\* captured, the indexing it started.
Effect(kind, target, args) == [kind |-> kind, target |-> target, args |-> args]

\* The outcome of one handling: the response (or the exception that left
\* the handler), its effects, and the labels of the repository and of the
\* issue afterwards.
Outcome(response, effects, labels, attached) ==
    [response |-> response, effects |-> effects, labels |-> labels, attached |-> attached]

Success == [status |-> 200, body |-> "success"]
Pong == [status |-> 200, body |-> "pong"]
\* Mutant: the ValidationError is logged and not raised again.
Unprocessable_swallowed == [status |-> 200, body |-> "success"]
Unprocessable == [status |-> 422, body |-> "Failed to parse request"]
Failure(exception) == [status |-> 500, body |-> exception]

\* request.issue.labels lowered: [label.name.lower() for label in labels]
LoweredNames(labels) == {lower(labels[i]) : i \in 1..Len(labels)}

\* Mutant: the label is created without looking at the labels of the
\* repository.
issues_opened_recreate(request, labels, attached) ==
    LET issue_title_lower == lower(request.issue.title)
    IN IF StartsWith(issue_title_lower, <<"s", "w", "e", "e", "p">>)
          \/ Contains(issue_title_lower, <<"s", "w", "e", "e", "p", ":">>)
       THEN Outcome(Success,
                    <<Effect("create_label", "repo",
                             [name |-> LABEL_NAME, color |-> LABEL_COLOR,
                              description |-> LABEL_DESCRIPTION]),
                      Effect("add_to_labels", "issue",
                             [name |-> LABEL_NAME, number |-> request.issue.number])>>,
                    (LABEL_NAME :> [color |-> LABEL_COLOR,
                                    description |-> LABEL_DESCRIPTION]) @@ labels,
                    attached \cup {LABEL_NAME})
       ELSE Outcome(Success, <<>>, labels, attached)

\* case "issues", "opened"
issues_opened(request, labels, attached) ==
    LET issue_title_lower == lower(request.issue.title)
    IN IF StartsWith(issue_title_lower, <<"s", "w", "e", "e", "p">>)
          \/ Contains(issue_title_lower, <<"s", "w", "e", "e", "p", ":">>)
       THEN LET missing == LABEL_NAME \notin DOMAIN labels
                created ==
                    IF missing
                    THEN <<Effect("create_label", "repo",
                                  [name |-> LABEL_NAME, color |-> LABEL_COLOR,
                                   description |-> LABEL_DESCRIPTION])>>
                    ELSE <<>>
                labels2 ==
                    IF missing
                    THEN labels @@ (LABEL_NAME :> [color |-> LABEL_COLOR,
                                                   description |-> LABEL_DESCRIPTION])
                    ELSE labels
            IN Outcome(Success,
                       created \o <<Effect("add_to_labels", "issue",
                                           [name |-> LABEL_NAME,
                                            number |-> request.issue.number])>>,
                       labels2, attached \cup {LABEL_NAME})
       ELSE Outcome(Success, <<>>, labels, attached)

\* The arguments of handle_ticket.spawn
TicketArgs(request, comment_id) ==
    [title |-> <<request.issue.title>>,
     summary |-> OrEmpty(request.issue.body),
     issue_number |-> request.issue.number,
     issue_url |-> request.issue.html_url,
     username |-> request.issue.user.login,
     repo_full_name |-> request.repository.full_name,
     repo_description |-> OrEmpty(request.repository.description),
     installation_id |-> request.installation.id,
     comment_id |-> comment_id]

\* case "issues", "labeled"
issues_labeled(request, labels, attached) ==
    IF request.issue # <<>> /\ <<"s", "w", "e", "e", "p">> \in LoweredNames(request.issue.labels)
    THEN Outcome(Success,
                 <<Effect("spawn", "handle_ticket", TicketArgs(request, <<>>))>>,
                 labels, attached)
    ELSE Outcome(Success, <<>>, labels, attached)

\* Mutant: the PR case is a second if, not an elif: a comment that passes
\* both tests is routed twice.
issue_comment_created_both(request, labels, attached) ==
    LET ticket ==
            IF /\ request.issue # <<>>
               /\ <<"s", "w", "e", "e", "p">> \in LoweredNames(request.issue.labels)
               /\ request.comment.user.type = "User"
            THEN <<Effect("spawn", "handle_ticket",
                          TicketArgs(request, <<request.comment.id>>))>>
            ELSE <<>>
        comment ==
            IF /\ request.issue # <<>>
               /\ request.issue.pull_request # <<>>
               /\ request.issue.user.login = SWEEP_LOGIN
               /\ request.comment.user.type = "User"
            THEN <<Effect("spawn", "handle_comment",
                          [repo_full_name |-> request.repository.full_name,
                           repo_description |-> request.repository.description,
                           comment |-> request.comment.body,
                           pr_path |-> <<>>,
                           pr_line_position |-> <<>>,
                           username |-> request.comment.user.login,
                           installation_id |-> request.installation.id,
                           pr_number |-> request.issue.number])>>
            ELSE <<>>
    IN IF request.issue = <<>>
       THEN Outcome(Failure("AttributeError"), <<>>, labels, attached)
       ELSE Outcome(Success, ticket \o comment, labels, attached)

\* Mutant: the ticket branch does not test the labels of the issue.
issue_comment_created_ungated(request, labels, attached) ==
    IF request.issue = <<>>
    THEN Outcome(Failure("AttributeError"), <<>>, labels, attached)
    ELSE IF request.comment.user.type = "User"
    THEN Outcome(Success,
                 <<Effect("spawn", "handle_ticket",
                          TicketArgs(request, <<request.comment.id>>))>>,
                 labels, attached)
    ELSE Outcome(Success, <<>>, labels, attached)

\* case "issue_comment", "created"
issue_comment_created(request, labels, attached) ==
    IF /\ request.issue # <<>>
       /\ <<"s", "w", "e", "e", "p">> \in LoweredNames(request.issue.labels)
       /\ request.comment.user.type = "User"
    THEN Outcome(Success,
                 <<Effect("spawn", "handle_ticket",
                          TicketArgs(request, <<request.comment.id>>))>>,
                 labels, attached)
    ELSE IF request.issue = <<>>
    THEN Outcome(Failure("AttributeError"), <<>>, labels, attached)
    ELSE IF /\ request.issue.pull_request # <<>>
            /\ request.issue.user.login = SWEEP_LOGIN
            /\ request.comment.user.type = "User"
    THEN Outcome(Success,
                 <<Effect("spawn", "handle_comment",
                          [repo_full_name |-> request.repository.full_name,
                           repo_description |-> request.repository.description,
                           comment |-> request.comment.body,
                           pr_path |-> <<>>,
                           pr_line_position |-> <<>>,
                           username |-> request.comment.user.login,
                           installation_id |-> request.installation.id,
                           pr_number |-> request.issue.number])>>,
                 labels, attached)
    ELSE Outcome(Success, <<>>, labels, attached)

\* case "pull_request_review_comment", "created"
review_comment_created(request, labels, attached) ==
    IF Contains(lower(request.pull_request.head.ref), <<"s", "w", "e", "e", "p", "/">>)
    THEN Outcome(Success,
                 <<Effect("spawn", "handle_comment",
                          [repo_full_name |-> request.repository.full_name,
                           repo_description |-> request.repository.description,
                           comment |-> request.comment.body,
                           pr_path |-> <<request.comment.path>>,
                           pr_line_position |-> <<request.comment.original_line>>,
                           username |-> request.comment.user.login,
                           installation_id |-> request.installation.id,
                           pr_number |-> request.pull_request.number])>>,
                 labels, attached)
    ELSE Outcome(Success, <<>>, labels, attached)

\* case "check_run", "completed". suite is what handle_check_suite.call
\* does: it returns the logs (<<logs>>) or raises, also on a timeout (<<>>).
check_run_completed(request, suite, labels, attached) ==
    LET called == <<Effect("call", "handle_check_suite", [request |-> "request"])>>
    IN IF suite = <<>>
       THEN Outcome(Failure("RemoteError"), called, labels, attached)
       ELSE IF Len(request.check_run.pull_requests) = 0
       THEN Outcome(Failure("IndexError"), called, labels, attached)
       ELSE Outcome(Success,
                    called \o
                    <<Effect("spawn", "handle_comment",
                             [repo_full_name |-> request.repository.full_name,
                              repo_description |-> request.repository.description,
                              comment |-> suite[1],
                              pr_path |-> <<>>,
                              pr_line_position |-> <<>>,
                              username |-> request.sender.login,
                              installation_id |-> request.installation.id,
                              pr_number |-> request.check_run.pull_requests[1].number])>>,
                    labels, attached)

\* The effects of the loop over the added repositories.
RECURSIVE InstalledEffects(_, _)
InstalledEffects(repos, installation_id) ==
    IF repos = <<>> THEN <<>>
    ELSE <<Effect("capture", "installed_repository", [repo_full_name |-> Head(repos)]),
           Effect("index", "index_full_repository",
                  [repo_full_name |-> Head(repos), installation_id |-> installation_id])>>
         \o InstalledEffects(Tail(repos), installation_id)

\* case "installation_repositories", "added"
repositories_added(request, labels, attached) ==
    Outcome(Success,
            <<Effect("capture", "installation_repositories",
                     [installation_id |-> request.installation.id,
                      repositories |-> request.repositories_added])>>
            \o InstalledEffects(request.repositories_added, request.installation.id),
            labels, attached)

\* case "installation", "created"
installation_created(request, labels, attached) ==
    Outcome(Success,
            [i \in 1..Len(request.repositories) |->
                Effect("index", "index_full_repository",
                       [repo_full_name |-> request.repositories[i],
                        installation_id |-> request.installation.id])],
            labels, attached)

\* update_index.spawn(request_dict["repository"]["full_name"],
\*                    installation_id=request_dict["installation"]["id"])
update_index_spawn(request_dict, before, labels, attached) ==
    IF "repository" \notin DOMAIN request_dict \/ "installation" \notin DOMAIN request_dict
    THEN Outcome(Failure("KeyError"), before, labels, attached)
    ELSE Outcome(Success,
                 before \o
                 <<Effect("spawn", "update_index",
                          [repo_full_name |-> request_dict.repository.full_name,
                           installation_id |-> request_dict.installation.id])>>,
                 labels, attached)

\* case ("pull_request", "closed")
pull_request_closed(request, labels, attached) ==
    IF request.pull_request.merged_by = <<>>
    THEN Outcome(Failure("AttributeError"), <<>>, labels, attached)
    ELSE update_index_spawn(
            request,
            IF SWEEP_LOGIN = request.pull_request.user.login
            THEN <<Effect("capture", "merged_sweep_pr",
                          [repo_full_name |-> request.repository.full_name,
                           username |-> request.pull_request.merged_by[1].login])>>
            ELSE <<>>,
            labels, attached)

\* The model a (event, action) case validates the body against; "" when the
\* case validates nothing.
ModelOf(event, action) ==
    CASE event = "issues" /\ action \in {<<"opened">>, <<"labeled">>} -> "IssueRequest"
      [] event = "issue_comment" /\ action = <<"created">> -> "IssueCommentRequest"
      [] event = "pull_request_review_comment" /\ action = <<"created">> ->
            "CommentCreatedRequest"
      [] event = "check_run" /\ action = <<"completed">> -> "CheckRunCompleted"
      [] event = "installation_repositories" /\ action = <<"added">> -> "ReposAddedRequest"
      [] event = "installation" /\ action = <<"created">> -> "InstallationCreatedRequest"
      [] event = "pull_request" /\ action = <<"closed">> -> "PRRequest"
      [] OTHER -> ""

\* webhook(raw_request): event is the X-GitHub-Event header (<<>> when the
\* header is missing), request_dict the JSON body, suite what
\* handle_check_suite.call does, labels and attached the labels of the
\* repository and of the issue before.
webhook(event, request_dict, suite, labels, attached) ==
    LET action == IF "action" \in DOMAIN request_dict
                  THEN <<request_dict.action>> ELSE <<>>
        model == ModelOf(event[1], action)
        request == request_dict
    IN IF event = <<>> THEN Outcome(Failure("AssertionError"), <<>>, labels, attached)
       ELSE IF model # "" /\ ~Validates(model, request_dict)
       THEN Outcome(Unprocessable, <<>>, labels, attached)
       ELSE IF event[1] = "issues" /\ action = <<"opened">>
       THEN issues_opened(request, labels, attached)
       ELSE IF event[1] = "issues" /\ action = <<"labeled">>
       THEN issues_labeled(request, labels, attached)
       ELSE IF event[1] = "issue_comment" /\ action = <<"created">>
       THEN issue_comment_created(request, labels, attached)
       ELSE IF event[1] = "pull_request_review_comment" /\ action = <<"created">>
       THEN review_comment_created(request, labels, attached)
       ELSE IF event[1] = "pull_request_review" /\ action = <<"submitted">>
       THEN Outcome(Success, <<>>, labels, attached)
       ELSE IF event[1] = "check_run" /\ action = <<"completed">>
       THEN check_run_completed(request, suite, labels, attached)
       ELSE IF event[1] = "installation_repositories" /\ action = <<"added">>
       THEN repositories_added(request, labels, attached)
       ELSE IF event[1] = "installation" /\ action = <<"created">>
       THEN installation_created(request, labels, attached)
       ELSE IF event[1] = "pull_request" /\ action = <<"closed">>
       THEN pull_request_closed(request, labels, attached)
       ELSE IF event[1] = "push" /\ action = <<>>
       THEN update_index_spawn(request_dict, <<>>, labels, attached)
       ELSE IF event[1] = "ping" /\ action = <<>>
       THEN Outcome(Pong, <<>>, labels, attached)
       ELSE Outcome(Success, <<>>, labels, attached)

(***************************************************************************)
(* The requests the webhook is tried on.                                   *)
(***************************************************************************)
Repository(description) == [full_name |-> "acme/app", description |-> description]
Installation == [id |-> 7]

Issue(title, labels, body, author, pull_request) ==
    [title |-> title, number |-> 1,
     html_url |-> "https://github.com/acme/app/issues/1",
     user |-> [login |-> author, type |-> "User"],
     body |-> body, labels |-> labels, pull_request |-> pull_request]

Titles == {<<"S", "w", "e", "e", "p", ":", " ", "f", "i", "x", " ", "b", "u", "g">>, <<"F", "i", "x", " ", "b", "u", "g">>, <<"B", "u", "g", ";", " ", "S", "W", "E", "E", "P", ":", " ", "f", "i", "x">>}
LabelLists == {<<>>, <<<<"b", "u", "g">>>>, <<<<"b", "u", "g">>, <<"S", "w", "e", "e", "p">>>>}
Logins == {SWEEP_LOGIN, "alice"}

Comment(type) ==
    [id |-> 11, body |-> "please fix", path |-> "src/a.py", original_line |-> 42,
     user |-> [login |-> "carol", type |-> type]]

IssuesBodies ==
    {[action |-> a, issue |-> Issue(t, ls, <<>>, "alice", <<>>),
      repository |-> Repository(<<>>), installation |-> Installation] :
        a \in {"opened", "labeled"}, t \in Titles, ls \in LabelLists}
    \cup {[action |-> a, issue |-> Issue(t, <<>>, <<"It is broken">>, "alice", <<>>),
           repository |-> Repository(<<"An app">>), installation |-> Installation] :
            a \in {"opened", "labeled"}, t \in Titles}
    \cup {[action |-> "labeled", issue |-> <<>>,
           repository |-> Repository(<<>>), installation |-> Installation]}
    \cup {[action |-> a, repository |-> Repository(<<>>), installation |-> Installation] :
            a \in {"opened", "labeled"}}

IssueCommentBodies ==
    {[action |-> "created", issue |-> Issue(<<"F", "i", "x", " ", "b", "u", "g">>, ls, <<>>, author, pr),
      comment |-> Comment(type),
      repository |-> Repository(<<"An app">>), installation |-> Installation] :
        ls \in LabelLists, author \in Logins,
        pr \in {<<>>, <<[url |-> "https://api.github.com/repos/acme/app/pulls/1"]>>},
        type \in {"User", "Bot"}}
    \cup {[action |-> "created", issue |-> <<>>, comment |-> Comment("User"),
           repository |-> Repository(<<>>), installation |-> Installation]}
    \cup {[action |-> "created", issue |-> Issue(<<"F", "i", "x", " ", "b", "u", "g">>, <<>>, <<>>, "alice", <<>>),
           repository |-> Repository(<<>>), installation |-> Installation]}

PullRequest(ref, author, merged_by) ==
    [number |-> 5, head |-> [ref |-> ref], user |-> [login |-> author],
     merged_by |-> merged_by]

ReviewCommentBodies ==
    {[action |-> "created", comment |-> Comment("User"),
      pull_request |-> PullRequest(ref, SWEEP_LOGIN, <<>>),
      repository |-> Repository(<<>>), installation |-> Installation] :
        ref \in {<<"s", "w", "e", "e", "p", "/", "f", "i", "x">>, <<"S", "w", "e", "e", "p", "/", "F", "i", "x">>, <<"m", "a", "i", "n">>}}
    \cup {[action |-> "created", comment |-> Comment("User"),
           repository |-> Repository(<<>>), installation |-> Installation]}

CheckRunBodies ==
    {[action |-> "completed", check_run |-> [pull_requests |-> prs],
      repository |-> Repository(<<>>), installation |-> Installation,
      sender |-> [login |-> "carol"]] :
        prs \in {<<>>, <<[number |-> 5]>>}}
    \cup {[action |-> "completed", repository |-> Repository(<<>>),
           installation |-> Installation, sender |-> [login |-> "carol"]]}

RepoLists == {<<>>, <<"acme/app">>, <<"acme/app", "acme/lib">>}

InstallationBodies ==
    {[action |-> "added", repositories_added |-> repos, installation |-> Installation] :
        repos \in RepoLists}
    \cup {[action |-> "created", repositories |-> repos, installation |-> Installation] :
            repos \in RepoLists}
    \cup {[action |-> a, installation |-> Installation] : a \in {"added", "created"}}

PullRequestBodies ==
    {[action |-> "closed", pull_request |-> PullRequest(<<"s", "w", "e", "e", "p", "/", "f", "i", "x">>, author, merged_by),
      repository |-> Repository(<<>>), installation |-> Installation] :
        author \in Logins, merged_by \in {<<>>, <<[login |-> "alice"]>>}}
    \cup {[action |-> "closed",
           pull_request |-> PullRequest(<<"s", "w", "e", "e", "p", "/", "f", "i", "x">>, "alice", <<[login |-> "alice"]>>),
           repository |-> Repository(<<>>)]}
    \cup {[action |-> "closed", repository |-> Repository(<<>>),
           installation |-> Installation]}

\* Bodies without an action, or with one no case expects.
PlainBodies ==
    {[zen |-> "Keep it logically awesome."],
     [repository |-> Repository(<<>>), installation |-> Installation],
     [repository |-> Repository(<<>>)],
     [action |-> "created", repository |-> Repository(<<>>), installation |-> Installation],
     [action |-> "submitted", repository |-> Repository(<<>>), installation |-> Installation]}

Bodies ==
    IssuesBodies \cup IssueCommentBodies \cup ReviewCommentBodies \cup CheckRunBodies
    \cup InstallationBodies \cup PullRequestBodies \cup PlainBodies

\* The event a body is delivered with: the event whose case fits the body;
\* a plain body comes with ping, push, a review, an event without case, or
\* no header at all.
EventsOf(body) ==
    (IF body \in PlainBodies THEN {<<>>, <<"ping">>, <<"push">>, <<"star">>} ELSE {})
    \cup (IF body \in IssuesBodies THEN {<<"issues">>} ELSE {})
    \cup (IF body \in IssueCommentBodies THEN {<<"issue_comment">>} ELSE {})
    \cup (IF body \in ReviewCommentBodies THEN {<<"pull_request_review_comment">>} ELSE {})
    \cup (IF body \in CheckRunBodies THEN {<<"check_run">>} ELSE {})
    \cup (IF body \in InstallationBodies
          THEN {<<"installation_repositories">>, <<"installation">>} ELSE {})
    \cup (IF body \in PullRequestBodies THEN {<<"pull_request">>} ELSE {})
    \cup (IF body \in PlainBodies THEN {<<"pull_request_review">>} ELSE {})

\* What handle_check_suite.call does, where it is called: it gives no logs,
\* or the logs of the failed run.
SuiteOutcomes(event) ==
    IF event = <<"check_run">> THEN {<<>>, <<"2 tests failed">>} ELSE {<<>>}

(***************************************************************************)
(* The state machine of the webhook.                                       *)
(*   repo_labels   the labels of the repository: name -> colour and        *)
(*                 description                                             *)
(*   issue_labels  the labels attached to issue 1                          *)
(*   handled       the request handled last: its event, its body, what     *)
(*                 handle_check_suite.call did, the response and the       *)
(*                 effects of handling it                                  *)
(***************************************************************************)
NoRequest ==
    [event |-> <<>>, body |-> <<>>, suite |-> <<>>,
     response |-> [status |-> 0, body |-> "none"], effects |-> <<>>]

\* The labels a repository has before the webhook first sees it: none, an
\* unrelated one, or a marker label somebody made by hand.
InitialLabels ==
    {<<>>,
     (<<"b", "u", "g">> :> [color |-> "d73a4a", description |-> "Something is broken"]),
     (LABEL_NAME :> [color |-> "ededed", description |-> "made by hand"])}

WebInit ==
    /\ repo_labels \in InitialLabels
    /\ issue_labels = {}
    /\ handled = NoRequest

\* One request is handled from its arrival to its response.
Webhook(event, request_dict, suite) ==
    LET outcome == webhook(event, request_dict, suite, repo_labels, issue_labels)
    IN /\ handled' = [event |-> event, body |-> request_dict, suite |-> suite,
                      response |-> outcome.response, effects |-> outcome.effects]
       /\ repo_labels' = outcome.labels
       /\ issue_labels' = outcome.attached

WebNext ==
    \E request_dict \in Bodies : \E event \in EventsOf(request_dict) :
        \E suite \in SuiteOutcomes(event) : Webhook(event, request_dict, suite)

(***************************************************************************)
(* The specifications.                                                     *)
(***************************************************************************)
vars == <<qvars, wvars>>

QuotaIdle == call = NoCall /\ loggers = <<>> /\ store = <<>> /\ seed = <<>>
                /\ clock = StartTime
                /\ tickets = [l \in LoggerIds |-> [gpt3 \in BOOLEAN |-> 0]]

WebIdle == repo_labels = <<>> /\ issue_labels = {} /\ handled = NoRequest

Init == QuotaInit /\ WebIdle

Next == QuotaNext /\ UNCHANGED wvars

\* The governor: instances constructed and called concurrently while the
\* clock advances.
Spec == Init /\ [][Next]_vars

\* The decision alone: one instance, constructed on the starting day,
\* decides for a user whose record is any of DecisionSeeds.
DecisionInit ==
    /\ clock = StartTime
    /\ store \in DecisionSeeds
    /\ seed = store
    /\ loggers = <<>>
    /\ tickets = [l \in LoggerIds |-> [gpt3 \in BOOLEAN |-> 0]]
    /\ call = NoCall
    /\ WebIdle

DecisionNext ==
    /\ \/ \E data \in LoggerData(1), conn \in ConnOutcomes : Construct(1, data, conn)
       \/ \E l \in LoggerIds, g \in GeoOutcomes, faults \in FaultSets :
             UseFasterModel(l, g, faults)
       \/ TakeOutcome
    /\ UNCHANGED wvars

SpecDecision == DecisionInit /\ [][DecisionNext]_vars

\* The webhook: requests handled one after the other on one repository.
WebhookInit == WebInit /\ QuotaIdle

WebhookNext == WebNext /\ UNCHANGED qvars

SpecWebhook == WebhookInit /\ [][WebhookNext]_vars

(***************************************************************************)
(* What the claims speak of.                                               *)
(***************************************************************************)
\* The records of a user, and the user's counter of a period: the sum of
\* the field over the user's records (0 when no record carries it).
UserDocs(coll, u) == {i \in 1..Len(coll) : coll[i]["username"] = u}

Counter(coll, u, key) ==
    SumOver([i \in 1..Len(coll) |-> Get(coll[i], key, 0)], UserDocs(coll, u))

HasFlag(coll, u, flag) == \E i \in UserDocs(coll, u) : Get(coll[i], flag, FALSE)

\* The instance of the call that ended, its user and that user's counters
\* of the instance's month and day.
Caller == loggers[call.logger]
CallUser == Caller.data["username"]
Monthly == Counter(store, CallUser, Caller.current_month)
Daily == Counter(store, CallUser, Caller.current_date)
IsPaying == HasFlag(store, CallUser, "is_paying_user")
IsTrial == HasFlag(store, CallUser, "is_trial_user")

\* A use_faster_model call on an instance with a ticket collection ended.
Decided == call.op = "use_faster_model" /\ Caller.ticket_collection

\* The geocoder found a place whose name holds no allow-listed country.
Unsupported(g) ==
    /\ g.geocode = "found"
    /\ Returned(is_supported_country(g.loc))
    /\ ~is_supported_country(g.loc).value

\* The geocoder found a place whose name holds an allow-listed country.
Supported(g) ==
    /\ g.geocode = "found"
    /\ Returned(is_supported_country(g.loc))
    /\ is_supported_country(g.loc).value

\* Geolocation failed: a timeout, a service error, another exception, or
\* an unset location.
GeoFailed(g) ==
    \/ g.get_user = "error"
    \/ g.geocode \in {"timeout", "service_error", "error"}
    \/ g.location = "unset"

\* C1: with ticket_collection None, use_faster_model returns True whatever
\* the user's flags, counters and location are, and makes no geolocation
\* lookup.
C1_UnavailableStoreDegrades ==
    (call.op = "use_faster_model" /\ ~Caller.ticket_collection)
        => (Returned(call.ret) /\ call.ret.value /\ ~call.ret.geo)

\* A paying user below every limit is degraded by an instance without a
\* ticket collection.
C1_Witness ==
    /\ call.op = "use_faster_model"
    /\ ~Caller.ticket_collection
    /\ IsPaying /\ Monthly < 500
    /\ Returned(call.ret) /\ call.ret.value

\* C2: for a paying user, use_faster_model returns True exactly when the
\* counter of the instance's month is at least 500.
C2_PayingThreshold ==
    (Decided /\ IsPaying /\ Returned(call.ret))
        => call.ret.value = (Monthly >= 500)

\* The paying user is degraded at exactly 500 tickets.
C2_Witness ==
    /\ Decided /\ IsPaying /\ ~IsTrial
    /\ Monthly = 500
    /\ Returned(call.ret) /\ call.ret.value

\* C3: paying comes before trial, trial before geography: a trial user who
\* is not paying is degraded exactly from 15 monthly tickets on, a user
\* with both flags exactly from 500 on, and only a user with neither flag
\* reaches the geolocation lookup.
C3_TierPrecedence ==
    Decided =>
        /\ (~IsPaying /\ IsTrial /\ Returned(call.ret))
              => call.ret.value = (Monthly >= 15)
        /\ (IsPaying /\ IsTrial /\ Returned(call.ret))
              => call.ret.value = (Monthly >= 500)
        /\ call.ret.geo => (~IsPaying /\ ~IsTrial)

\* A user with both flags, past the trial limit, is not degraded.
C3_Witness ==
    /\ Decided /\ IsPaying /\ IsTrial
    /\ Monthly >= 15
    /\ Returned(call.ret) /\ ~call.ret.value

\* C4: a user who is neither paying nor trial and whose location is found
\* outside the allow-list is degraded exactly when the monthly counter is
\* at least 5 or the daily counter at least 1.
C4_UnsupportedCountry ==
    (Decided /\ ~IsPaying /\ ~IsTrial /\ call.g.location = "set"
        /\ Unsupported(call.g) /\ Returned(call.ret))
        => call.ret.value = (Monthly >= 5 \/ Daily >= 1)

\* C5: for a user who is neither paying nor trial, when geolocation fails
\* (timeout, service error, other exception, unset location) the call
\* returns True exactly when the monthly counter is at least 5 or the daily
\* counter more than 3.
C5_GeolocationFailure ==
    (Decided /\ ~IsPaying /\ ~IsTrial /\ GeoFailed(call.g) /\ Returned(call.ret))
        => call.ret.value = (Monthly >= 5 \/ Daily > 3)

\* The collection with the counter of user u for key set to c.
SetCounter(coll, u, key, c) ==
    IF UserDocs(coll, u) = {} THEN Append(coll, [username |-> u] @@ (key :> c))
    ELSE [i \in 1..Len(coll) |->
            IF i \in UserDocs(coll, u) THEN (key :> c) @@ coll[i] ELSE coll[i]]

\* C6: the decision is monotonic in the monthly count: with the instance,
\* the flags, the daily count, the geolocation outcome and the failing store
\* operations fixed, a call that returns True at one monthly count returns
\* True at every larger one.
C6_MonotonicInMonthlyCount ==
    call.op = "use_faster_model" =>
        \A faults \in FaultSets, c2 \in MonthCounts :
            LET at(c) == use_faster_model(
                             Caller, SetCounter(store, CallUser, Caller.current_month, c),
                             call.g, faults)
            IN (Monthly <= c2 /\ Returned(at(Monthly)) /\ at(Monthly).value)
                   => (Returned(at(c2)) /\ at(c2).value)

\* A call returned True on a monthly count below the largest one tried.
C6_Witness ==
    /\ Decided
    /\ Returned(call.ret) /\ call.ret.value
    /\ Monthly = 500

\* The user add_successful_ticket counts for, as the claims state it.
CountedFor(l) ==
    IF "assignee" \in DOMAIN loggers[l].data THEN loggers[l].data["assignee"]
    ELSE loggers[l].data["username"]

\* The instances with a ticket collection that count for user u under key.
Counting(u, key) ==
    {l \in DOMAIN loggers :
        /\ loggers[l].ticket_collection
        /\ CountedFor(l) = u
        /\ key \in {loggers[l].current_date, loggers[l].current_month}}

\* The days within the bounds of the model, and the keys of their periods.
Times == {Later(StartTime, n) : n \in 0..MaxTicks}
PeriodKeys == {strftime_date(t) : t \in Times} \cup {strftime_month(t) : t \in Times}

Counts(l, gpt3) ==
    /\ l \in DOMAIN loggers
    /\ loggers[l].ticket_collection
    /\ tickets'[l][gpt3] = tickets[l][gpt3] + 1

\* The change of the counter of the user instance l counts for.
Raise_(l, key) == Counter(store', CountedFor(l), key) - Counter(store, CountedFor(l), key)

C9_StoreFailureContained ==
    call.op # "none" => Returned(call.ret)

(***************************************************************************)
(* What the claims about the webhook speak of: the request handled last.   *)
(***************************************************************************)
\* The request handled last came with this event and this action.
Kind(event, action) ==
    /\ handled.event = <<event>>
    /\ "action" \in DOMAIN handled.body
    /\ handled.body.action = action

\* The request handled last passed the validation of its case.
Validated == handled.event # <<>> /\ handled.response.status # 422

\* The downstream task kinds, and the positions of their invocations among
\* the effects of the request handled last.
TaskKinds == {"handle_ticket", "handle_comment", "handle_pr", "handle_check_suite"}
Invocations(targets) ==
    {i \in DOMAIN handled.effects :
        /\ handled.effects[i].kind \in {"spawn", "call"}
        /\ handled.effects[i].target \in targets}
NTasks == Cardinality(Invocations(TaskKinds))

\* The issue of the request carries the marker label, in any case of letters.
HasMarker ==
    /\ handled.body.issue # <<>>
    /\ \E i \in DOMAIN handled.body.issue.labels :
          lower(handled.body.issue.labels[i]) = <<"s", "w", "e", "e", "p">>

\* The comment of the request was written by a human user.
Human == handled.body.comment.user.type = "User"

\* The issue of the request is a pull request the bot opened.
BotPullRequest ==
    /\ handled.body.issue # <<>>
    /\ handled.body.issue.pull_request # <<>>
    /\ handled.body.issue.user.login = SWEEP_LOGIN

\* The title of the opened issue starts with the keyword or holds "keyword:".
TitleEligible ==
    LET title == lower(handled.body.issue.title)
    IN \/ (Len(title) >= 5 /\ SubSeq(title, 1, 5) = <<"s", "w", "e", "e", "p">>)
       \/ \E i \in 1..Len(title) :
             i + 5 <= Len(title)
             /\ SubSeq(title, i, i + 5) = <<"s", "w", "e", "e", "p", ":">>

\* The branch of the reviewed pull request is in the reserved namespace.
BranchEligible ==
    LET ref == lower(handled.body.pull_request.head.ref)
    IN \E i \in 1..Len(ref) :
          i + 5 <= Len(ref) /\ SubSeq(ref, i, i + 5) = <<"s", "w", "e", "e", "p", "/">>

\* The validated request is one the router sends to a single task.
RoutedToTicket ==
    Validated /\ \/ Kind("issues", "labeled") /\ HasMarker
                 \/ Kind("issue_comment", "created") /\ HasMarker /\ Human
RoutedToComment ==
    Validated /\ \/ Kind("issue_comment", "created") /\ ~(HasMarker /\ Human)
                    /\ BotPullRequest /\ Human
                 \/ Kind("pull_request_review_comment", "created") /\ BranchEligible

\* The validated request is eligible by the rules of its (event, action).
Eligible ==
    Validated /\ \/ Kind("issues", "opened") /\ TitleEligible
                 \/ RoutedToTicket
                 \/ RoutedToComment
                 \/ Kind("check_run", "completed")
                 \/ Kind("installation_repositories", "added")
                 \/ Kind("installation", "created")
                 \/ Kind("pull_request", "closed")
                 \/ (handled.event = <<"push">> /\ "action" \notin DOMAIN handled.body)

\* The request is a ping without action, which is acknowledged at once.
Acknowledged == handled.event = <<"ping">> /\ "action" \notin DOMAIN handled.body

C10_PingAnswersPong ==
    handled.event = <<"ping">> =>
        /\ handled.response = Pong
        /\ handled.effects = <<>>

\* C12: handling an issue_comment created event whose issue has no label
\* equal to "sweep" in any case of letters spawns no handle_ticket, whoever
\* wrote the comment and whether or not the issue is a pull request.
C12_NoTicketWithoutMarker ==
    (Kind("issue_comment", "created") /\ (Validated => ~HasMarker))
        => Invocations({"handle_ticket"}) = {}

\* A human's comment on an issue that has a label, but not the marker, was
\* handled.
C12_Witness ==
    /\ Kind("issue_comment", "created") /\ Validated
    /\ handled.body.issue # <<>>
    /\ handled.body.issue.labels # <<>>
    /\ ~HasMarker /\ Human
    /\ handled.response = Success

\* C13: handling a human's issue_comment created event on a pull request
\* the bot opened spawns exactly one handle_comment, with pr_path and
\* pr_line_position None, and no handle_ticket, whatever the labels of the
\* pull request are.
C13_BotPullRequestToComment ==
    (Kind("issue_comment", "created") /\ Validated /\ BotPullRequest /\ Human)
        => /\ Invocations({"handle_ticket"}) = {}
           /\ Cardinality(Invocations({"handle_comment"})) = 1
           /\ \A i \in Invocations({"handle_comment"}) :
                 /\ handled.effects[i].args.pr_path = <<>>
                 /\ handled.effects[i].args.pr_line_position = <<>>

\* The spawns of update_index and the captures of the merge event among
\* the effects of the request handled last.
IndexRefreshes ==
    {i \in DOMAIN handled.effects :
        handled.effects[i].kind = "spawn" /\ handled.effects[i].target = "update_index"}
MergeCaptures ==
    {i \in DOMAIN handled.effects :
        handled.effects[i].kind = "capture" /\ handled.effects[i].target = "merged_sweep_pr"}

\* C14: handling a valid pull_request closed event (one that names its
\* pull request, repository and installation) spawns update_index
\* exactly once and answers success, merged or not and whoever the author
\* is; the merge event is captured only when the author is the bot.
C14_ClosedAlwaysRefreshes ==
    (Kind("pull_request", "closed") /\ Validated
     /\ "installation" \in DOMAIN handled.body)
        => /\ Cardinality(IndexRefreshes) = 1
           /\ handled.response = Success
           /\ MergeCaptures # {} => handled.body.pull_request.user.login = SWEEP_LOGIN

\* The handle_comment spawns among the effects of the request handled last.
CommentSpawns ==
    {i \in DOMAIN handled.effects :
        handled.effects[i].kind = "spawn" /\ handled.effects[i].target = "handle_comment"}

\* C15: handling a check_run completed event calls handle_check_suite
\* first; when the call returns, handle_comment is spawned after it,
\* exactly once, with the returned logs as comment; when the call fails or
\* times out, handle_comment is not spawned.
C15_SuiteThenComment ==
    (Kind("check_run", "completed") /\ Validated)
        => /\ handled.effects # <<>>
           /\ handled.effects[1].kind = "call"
           /\ handled.effects[1].target = "handle_check_suite"
           /\ handled.suite = <<>> => CommentSpawns = {}
           /\ handled.suite # <<>> =>
                 /\ CommentSpawns = {2}
                 /\ handled.effects[2].args.comment = handled.suite[1]

\* The label creations and attachments among the effects of the request
\* handled last.
LabelCreations ==
    {i \in DOMAIN handled.effects : handled.effects[i].kind = "create_label"}
LabelAttachments ==
    {i \in DOMAIN handled.effects : handled.effects[i].kind = "add_to_labels"}

\* The request handled last is an eligible issues opened event.
EligibleOpened == Kind("issues", "opened") /\ Validated /\ TitleEligible

\* C16: a handling of an eligible issues opened event creates the marker
\* label exactly when the repository does not have it, so never when the
\* handling before it was one of an eligible issues opened event; it leaves
\* every label the repository has as it is; and it attaches the marker
\* label to the issue, once.
C16_LabelCreatedOnce ==
    [][EligibleOpened' =>
          /\ Cardinality(LabelCreations') =
                 (IF LABEL_NAME \in DOMAIN repo_labels THEN 0 ELSE 1)
          /\ EligibleOpened => LabelCreations' = {}
          /\ \A name \in DOMAIN repo_labels :
                name \in DOMAIN repo_labels' /\ repo_labels'[name] = repo_labels[name]
          /\ DOMAIN repo_labels' = DOMAIN repo_labels \cup {LABEL_NAME}
          /\ Cardinality(LabelAttachments') = 1
          /\ LABEL_NAME \in issue_labels']_vars

\* An eligible issues opened event was handled on a repository whose marker
\* label an earlier handling had created: this handling created none.
C16_Witness ==
    /\ EligibleOpened
    /\ LabelCreations = {}
    /\ LabelAttachments # {}
    /\ LABEL_NAME \in DOMAIN repo_labels
    /\ repo_labels[LABEL_NAME].color = LABEL_COLOR

\* The body of the request handled last fails the validation of the case
\* its event and action select.
InvalidPayload ==
    /\ handled.event # <<>>
    /\ LET action == IF "action" \in DOMAIN handled.body
                     THEN <<handled.body.action>> ELSE <<>>
           model == ModelOf(handled.event[1], action)
       IN model # "" /\ ~Validates(model, handled.body)

\* C17: a request whose body fails validation is answered 422 with the
\* detail "Failed to parse request", and handling it has no effect: no
\* label created or attached, no task, no analytics event, no indexing;
\* and only such a request is answered 422.
C17_InvalidPayloadRejected ==
    [][/\ InvalidPayload' =>
             /\ handled'.response.status = 422
             /\ handled'.response.body = "Failed to parse request"
             /\ handled'.effects = <<>>
             /\ repo_labels' = repo_labels
             /\ issue_labels' = issue_labels
       /\ handled'.response.status = 422 => InvalidPayload']_vars

\* An issues opened event without an issue was rejected on a repository
\* that has the marker label.
C17_Witness ==
    /\ InvalidPayload
    /\ Kind("issues", "opened")
    /\ handled.response.status = 422
    /\ LABEL_NAME \in DOMAIN repo_labels

\* C18: in every handle_ticket and handle_comment invocation of a handling
\* the title, where the task takes one, and the repository description are
\* not None: a value absent in the request is forwarded as "".
C18_ForwardedNeverNull ==
    \A i \in Invocations({"handle_ticket", "handle_comment"}) :
        /\ handled.effects[i].args.repo_description # <<>>
        /\ "title" \in DOMAIN handled.effects[i].args
              => handled.effects[i].args.title # <<>>

\* The key of the day and of the month of the wall clock now.
DateNow == strftime_date(clock)
MonthNow == strftime_month(clock)

\* C19: the period keys are those of the wall clock when the operation
\* runs: get_ticket_count returns the counter of the day or month the clock
\* shows now, and add_successful_ticket with gpt3 false raises the counters
\* of that day and month, also on an instance constructed before the day
\* or the month rolled over.
C19_KeysOfTheClock ==
    [][/\ (/\ call'.op = "get_ticket_count" /\ ~call'.gpt3
           /\ loggers[call'.logger].ticket_collection
           /\ Returned(call'.ret))
             => call'.ret.value =
                    Counter(store, loggers[call'.logger].data["username"],
                            IF call'.use_date THEN DateNow ELSE MonthNow)
       /\ \A l \in LoggerIds :
             Counts(l, FALSE) => (Raise_(l, DateNow) = 1 /\ Raise_(l, MonthNow) = 1)]_vars

SameDoc(a, b) == DOMAIN a = DOMAIN b /\ \A k \in DOMAIN a : a[k] = b[k]

\* The records the step changed or created.
Touched ==
    {i \in 1..Len(store') : i > Len(store) \/ ~SameDoc(store'[i], store[i])}

\* The fields of a record that are counters: all but the name and the flags.
CounterKeys(doc) == DOMAIN doc \ {"username", "is_paying_user", "is_trial_user"}

\* C21: a call of add_successful_ticket that returns, on an instance with a
\* ticket collection, changes exactly one record, the one of data["assignee"]
\* when the instance has an assignee and of data["username"] otherwise; in
\* that record only counters change; no record is removed, every other
\* record and every tier flag stay as they are; and with an assignee other
\* than the username, every counter of the username stays as it is.
C21_TicketAttribution ==
    [][\A l \in LoggerIds, gpt3 \in BOOLEAN :
          Counts(l, gpt3) =>
              LET data == loggers[l].data
                  user == IF "assignee" \in DOMAIN data THEN data["assignee"]
                          ELSE data["username"]
              IN /\ Len(store') >= Len(store)
                 /\ Cardinality(Touched) = 1
                 /\ \A i \in Touched :
                       /\ store'[i]["username"] = user
                       /\ i <= Len(store) =>
                             \A k \in DOMAIN store[i] \ CounterKeys(store[i]) :
                                 k \in DOMAIN store'[i] /\ store'[i][k] = store[i][k]
                       /\ \A flag \in {"is_paying_user", "is_trial_user"} :
                             Get(store'[i], flag, FALSE) =
                                 (IF i <= Len(store) THEN Get(store[i], flag, FALSE)
                                  ELSE FALSE)
                 /\ user # data["username"] =>
                       \A key \in PeriodKeys \cup {gpt3_key(strftime_month(t)) : t \in Times} :
                           Counter(store', data["username"], key)
                               = Counter(store, data["username"], key)]_vars

\* An instance of alice with assignee bob counted a ticket: a counter of
\* bob is above what the store held at first, alice's counters are not.
C21_Witness ==
    /\ call.op = "add_successful_ticket" /\ ~call.gpt3
    /\ Returned(call.ret)
    /\ Caller.ticket_collection
    /\ "assignee" \in DOMAIN Caller.data
    /\ Caller.data["assignee"] # Caller.data["username"]
    /\ Counter(store, Caller.data["assignee"], Caller.current_month)
           > Counter(seed, Caller.data["assignee"], Caller.current_month)
    /\ \A key \in PeriodKeys :
          Counter(store, Caller.data["username"], key)
              = Counter(seed, Caller.data["username"], key)

====
